---- MODULE Spec2Model ----
(***************************************************************************)
(* Model of the PMS monitoring service (src/src/index.ts): the health      *)
(* prober, the status store, the polling scheduler and the WebSocket       *)
(* broadcast hub.                                                          *)
(*                                                                         *)
(* The program runs on the Node.js event loop: every callback (a timer     *)
(* firing, a probe's promise settling together with the microtasks it      *)
(* releases, a WebSocket 'connection' or 'close' event) runs to completion *)
(* before the next one starts.  Each such callback is one action.          *)
(* Time is the value of Date.now() in ms since the process started.        *)
(***************************************************************************)
EXTENDS Integers, Sequences, FiniteSets, TLC

(***************************************************************************)
(* Bounds of the model.                                                    *)
(***************************************************************************)
\* how many of the registered services the model monitors
NumServices == 2
\* how many WebSocket connections are accepted during a run
MaxConnections == 2
\* how many times the interval timer fires during a run
MaxTimerFirings == 1

(***************************************************************************)
(* Program constants.                                                      *)
(***************************************************************************)
\* axios.get(..., { timeout: 5000 })
ProbeTimeout_beyond_interval == 30000 + 5000
ProbeTimeout == 5000
\* setInterval(monitorServices, 30000)
Interval == 30000
\* client.readyState === 1 // WebSocket.OPEN
OPEN == 1
\* the other readyState values of a ws WebSocket
WsReadyState == [CONNECTING |-> 0, CLOSING |-> 2, CLOSED |-> 3]
CONNECTING == WsReadyState.CONNECTING
CLOSING == WsReadyState.CLOSING
CLOSED == WsReadyState.CLOSED

\* const services = [...]
Registry ==
  << [name |-> "backend",     url |-> "http://localhost:5000/health"],
     [name |-> "core",        url |-> "http://localhost:3000/health"],
     [name |-> "admin",       url |-> "http://localhost:3010"],
     [name |-> "guest",       url |-> "http://localhost:3011"],
     [name |-> "staff",       url |-> "http://localhost:3012"],
     [name |-> "marketplace", url |-> "http://localhost:3013"],
     [name |-> "gateway",     url |-> "http://localhost:8080/health"] >>

MinOf(a, b) == IF a <= b THEN a ELSE b

\* the services the model monitors: the first NumServices of the registry
services == SubSeq(Registry, 1, MinOf(NumServices, Len(Registry)))

(***************************************************************************)
(* A JavaScript Map: a sequence of <<key, value>> entries in insertion     *)
(* order.  set() overwrites the value of an existing key in place and      *)
(* appends a new key; values() lists the values in insertion order.        *)
(***************************************************************************)
MapKeys(m) == {m[i][1] : i \in 1..Len(m)}

MapHas(m, k) == \E i \in 1..Len(m) : m[i][1] = k

MapGet(m, k) == m[CHOOSE i \in 1..Len(m) : m[i][1] = k][2]

MapSet_append(m, k, v) == Append(m, <<k, v>>)
MapSet(m, k, v) ==
  IF MapHas(m, k)
    THEN [i \in 1..Len(m) |-> IF m[i][1] = k THEN <<k, v>> ELSE m[i]]
    ELSE Append(m, <<k, v>>)

\* Array.from(map.values())
MapValues_first(m) == [i \in 1..MinOf(1, Len(m)) |-> m[i][2]]
MapValues(m) == [i \in 1..Len(m) |-> m[i][2]]

(***************************************************************************)
(* What a probe's HTTP request can come to.                                *)
(***************************************************************************)
Response(code) == [kind |-> "response", status |-> code]
NetworkError == [kind |-> "network"]
TimedOut == [kind |-> "timeout"]
InvalidUrl == [kind |-> "invalid_url"]

\* the status codes the targets answer with in a run of the whole service
StatusCodes == {200, 404, 500}

\* what a request comes to before the timeout in a run of the whole service
EarlyOutcomes == {Response(c) : c \in StatusCodes}

\* validateStatus: (status) => status < 500
validateStatus_all(status) == TRUE
validateStatus(status) == status < 500

\* error.message of the error axios rejects with
ErrorMessage(outcome) ==
  CASE outcome.kind = "response" ->
         "Request failed with status code " \o ToString(outcome.status)
    [] outcome.kind = "timeout" ->
         "timeout of " \o ToString(ProbeTimeout) \o "ms exceeded"
    [] outcome.kind = "network" -> "connect ECONNREFUSED"
    [] outcome.kind = "invalid_url" -> "Invalid URL"

\* axios.get(url, {timeout, validateStatus}): resolves with the response
\* when validateStatus accepts its status code, rejects otherwise
AxiosGet(outcome) ==
  IF outcome.kind = "response" /\ validateStatus(outcome.status)
    THEN [ok |-> TRUE, status |-> outcome.status]
    ELSE [ok |-> FALSE, message |-> ErrorMessage(outcome)]

Pending == [state |-> "pending"]

\* checkServiceHealth(service), started at startTime, its request coming to
\* `outcome` at time `now`: the settled promise it returns
checkServiceHealth_nocatch(service, startTime, now, outcome) ==
  LET response == AxiosGet(outcome)
      responseTime == now - startTime
  IN  IF response.ok
        THEN [state |-> "fulfilled",
              value |-> [name         |-> service.name,
                         status       |-> "healthy",
                         responseTime |-> responseTime,
                         lastCheck    |-> now,
                         uptime       |-> IF response.status = 200 THEN 100 ELSE 90]]
        ELSE [state |-> "rejected", reason |-> response.message]
checkServiceHealth_error_kept(service, startTime, now, outcome) ==
  LET response == AxiosGet(outcome)
      responseTime == now - startTime
  IN  [state |-> "fulfilled",
       value |-> [name         |-> service.name,
                  status       |-> IF response.ok THEN "healthy" ELSE "unhealthy",
                  responseTime |-> responseTime,
                  lastCheck    |-> now,
                  uptime       |-> IF response.ok THEN 100 ELSE 0,
                  error        |-> IF response.ok THEN "" ELSE response.message]]
checkServiceHealth(service, startTime, now, outcome) ==
  LET response == AxiosGet(outcome)
      responseTime == now - startTime
  IN  IF response.ok
        THEN [state |-> "fulfilled",
              value |-> [name         |-> service.name,
                         status       |-> "healthy",
                         responseTime |-> responseTime,
                         lastCheck    |-> now,
                         uptime       |-> IF response.status = 200 THEN 100 ELSE 90]]
        ELSE [state |-> "fulfilled",
              value |-> [name         |-> service.name,
                         status       |-> "unhealthy",
                         responseTime |-> responseTime,
                         lastCheck    |-> now,
                         uptime       |-> 0,
                         error        |-> response.message]]

(***************************************************************************)
(* State.                                                                  *)
(***************************************************************************)
VARIABLES
  clock,            \* Date.now(), ms since process start
  timerNext,        \* when the setInterval timer fires next
  cycles,           \* monitorServices invocations awaiting Promise.allSettled:
                    \*   start time -> the promises of its probes, by index
  serviceStatuses,  \* the Map<string, ServiceStatus>
  clients,          \* the Set of WebSocket connections
  readyState,       \* connection -> its ws readyState
  inbox,            \* connection -> the messages send() was called with
  call,             \* a single checkServiceHealth call: its arguments
  returned,         \* ... and the promise it returned
  listening,        \* whether the HTTP server accepts connections
  exited,           \* whether process.exit has run
  response          \* what the handler of the current event wrote to its
                    \*   HTTP response, NoResponse when it wrote none

sysVars == <<clock, timerNext, cycles, serviceStatuses, clients, readyState, inbox>>
callVars == <<call, returned>>
procVars == <<listening, exited>>
vars == <<sysVars, callVars, procVars, response>>

Connections == 1..MaxConnections

\* the last time the model lets the interval timer fire
LastFiring == MaxTimerFirings * Interval

\* the times at which the model starts a cycle
StartTimes == {k * Interval : k \in 0..MaxTimerFirings}

NoCall == [made |-> FALSE]

NoResponse == [sent |-> FALSE]

\* the event is not an HTTP request and does not end the process
Internal ==
  /\ response' = NoResponse
  /\ UNCHANGED procVars

(***************************************************************************)
(* monitorServices, after `await Promise.allSettled(promises)`.            *)
(***************************************************************************)
\* results.forEach((result, index) => ...), entries index..Len(results)
RECURSIVE ResultLoop(_, _, _, _)
ResultLoop_unknown_key(store, results, index, now) ==
  IF index > Len(results)
    THEN store
    ELSE LET result == results[index]
             serviceName == IF result.state = "fulfilled"
                              THEN services[index].name
                              ELSE "unknown"
             entry == IF result.state = "fulfilled"
                        THEN result.value
                        ELSE [name         |-> serviceName,
                              status       |-> "unknown",
                              responseTime |-> 0,
                              lastCheck    |-> now,
                              uptime       |-> 0,
                              error        |-> "Health check failed"]
         IN  ResultLoop(MapSet(store, serviceName, entry), results, index + 1, now)
ResultLoop_abort(store, results, index, now) ==
  IF index > Len(results)
    THEN store
    ELSE LET serviceName == services[index].name
             result == results[index]
         IN  IF result.state = "fulfilled"
               THEN ResultLoop(MapSet(store, serviceName, result.value), results, index + 1, now)
               ELSE store
ResultLoop(store, results, index, now) ==
  IF index > Len(results)
    THEN store
    ELSE LET serviceName == services[index].name
             result == results[index]
             entry == IF result.state = "fulfilled"
                        THEN result.value
                        ELSE [name         |-> serviceName,
                              status       |-> "unknown",
                              responseTime |-> 0,
                              lastCheck    |-> now,
                              uptime       |-> 0,
                              error        |-> "Health check failed"]
         IN  ResultLoop(MapSet(store, serviceName, entry), results, index + 1, now)

\* the statusData of broadcastStatus
BroadcastMessage(store, now) ==
  [type |-> "status", data |-> MapValues(store), timestamp |-> now]

\* the message of the 'connection' handler
SnapshotMessage_blank(store) ==
  [type |-> "status", data |-> << >>]
SnapshotMessage(store) ==
  [type |-> "status", data |-> MapValues(store)]

\* clients.forEach(client => { if (client.readyState === 1) client.send(...) }):
\* the connections send() is called on
BroadcastTargets_stop_at_closed(live, state) ==
  {c \in live : \A d \in live : d <= c => state[d] = OPEN}
BroadcastTargets_all(live, state) == live
BroadcastTargets(live, state) == {c \in live : state[c] = OPEN}

\* broadcastStatus(): the messages sent, per connection, after it
broadcastStatus_twice(sent, live, state, store, now) ==
  [c \in DOMAIN sent |->
     IF c \in BroadcastTargets(live, state)
       THEN sent[c] \o <<BroadcastMessage(store, now), BroadcastMessage(store, now)>>
       ELSE sent[c]]
broadcastStatus(sent, live, state, store, now) ==
  [c \in DOMAIN sent |->
     IF c \in BroadcastTargets(live, state)
       THEN Append(sent[c], BroadcastMessage(store, now))
       ELSE sent[c]]

AllSettled(promises) == \A i \in 1..Len(promises) : promises[i].state # "pending"

Remove(f, k) == [x \in DOMAIN f \ {k} |-> f[x]]

\* the promise of probe `index` of the cycle started at `start` settles as
\* `settled`; when it is the cycle's last, Promise.allSettled resolves and
\* the rest of monitorServices (the result loop, the broadcast) runs in the
\* same turn of the event loop
Settle_write_through(start, index, settled) ==
  LET promises == [cycles[start] EXCEPT ![index] = settled]
      written == MapSet(serviceStatuses, services[index].name, settled.value)
  IN  /\ serviceStatuses' = written
      /\ IF AllSettled(promises)
           THEN /\ inbox' = broadcastStatus(inbox, clients, readyState, written, clock)
                /\ cycles' = Remove(cycles, start)
           ELSE /\ cycles' = [cycles EXCEPT ![start] = promises]
                /\ UNCHANGED inbox
Settle(start, index, settled) ==
  LET promises == [cycles[start] EXCEPT ![index] = settled]
  IN  IF AllSettled(promises)
        THEN LET store == ResultLoop(serviceStatuses, promises, 1, clock)
             IN  /\ serviceStatuses' = store
                 /\ inbox' = broadcastStatus(inbox, clients, readyState, store, clock)
                 /\ cycles' = Remove(cycles, start)
        ELSE /\ cycles' = [cycles EXCEPT ![start] = promises]
             /\ UNCHANGED <<serviceStatuses, inbox>>

(***************************************************************************)
(* Init: the module's top level has run: the interval timer is set, the    *)
(* initial monitorServices() call has started its probes, the server       *)
(* listens.                                                                *)
(***************************************************************************)
\* const promises = services.map(service => checkServiceHealth(service))
StartProbes == [i \in 1..Len(services) |-> Pending]

SysInit ==
  /\ clock = 0
  /\ timerNext = Interval
  /\ cycles = (0 :> StartProbes)
  /\ serviceStatuses = << >>
  /\ clients = {}
  /\ readyState = [c \in Connections |-> CONNECTING]
  /\ inbox = [c \in Connections |-> << >>]
  /\ listening = TRUE
  /\ exited = FALSE
  /\ response = NoResponse

Init ==
  /\ SysInit
  /\ call = NoCall
  /\ returned = Pending

(***************************************************************************)
(* Actions.                                                                *)
(***************************************************************************)
\* the interval timer fires: monitorServices() starts a cycle
TimerFires ==
  /\ ~exited
  /\ clock = timerNext
  /\ timerNext <= LastFiring
  /\ cycles' = (clock :> StartProbes) @@ cycles
  /\ timerNext' = timerNext + Interval
  /\ Internal
  /\ UNCHANGED <<clock, serviceStatuses, clients, readyState, inbox, callVars>>

\* { timeout: 5000 }: whether a request started at `start` and still
\* unanswered at `now` is aborted
TimeoutDue_never(start, now) == FALSE
TimeoutDue(start, now) == now - start >= ProbeTimeout

\* a probe's request ends before the timeout, with a response or an error
ProbeResponds(start, index, outcome) ==
  /\ ~exited
  /\ start \in DOMAIN cycles
  /\ cycles[start][index].state = "pending"
  /\ ~TimeoutDue(start, clock)
  /\ Settle(start, index, checkServiceHealth(services[index], start, clock, outcome))
  /\ Internal
  /\ UNCHANGED <<clock, timerNext, clients, readyState, callVars>>

\* a probe's request has had no answer for `timeout` ms: axios aborts it
ProbeTimesOut(start, index) ==
  /\ ~exited
  /\ start \in DOMAIN cycles
  /\ cycles[start][index].state = "pending"
  /\ TimeoutDue(start, clock)
  /\ Settle(start, index, checkServiceHealth(services[index], start, clock, TimedOut))
  /\ Internal
  /\ UNCHANGED <<clock, timerNext, clients, readyState, callVars>>

\* the instants time cannot pass without an event: the timer being due, an
\* outstanding probe reaching its timeout
Deadlines ==
  (IF timerNext <= LastFiring THEN {timerNext} ELSE {})
    \cup {s + ProbeTimeout : s \in DOMAIN cycles}

SetMin(S) == CHOOSE x \in S : \A y \in S : x <= y

\* time passes, up to the next deadline
Tick ==
  /\ ~exited
  /\ Deadlines # {}
  /\ \A d \in Deadlines : clock < d
  /\ clock' = SetMin(Deadlines)
  /\ Internal
  /\ UNCHANGED <<timerNext, cycles, serviceStatuses, clients, readyState, inbox, callVars>>

\* wss.on('connection', ws => ...): connections are numbered as accepted
Connect(c) ==
  /\ ~exited
  /\ listening
  /\ readyState[c] = CONNECTING
  /\ \A d \in Connections : d < c => readyState[d] # CONNECTING
  /\ readyState' = [readyState EXCEPT ![c] = OPEN]
  /\ clients' = clients \cup {c}
  /\ inbox' = [inbox EXCEPT ![c] = Append(@, SnapshotMessage(serviceStatuses))]
  /\ Internal
  /\ UNCHANGED <<clock, timerNext, cycles, serviceStatuses, callVars>>

\* a connection starts to close (the peer's close frame arrived, or the
\* socket failed): ws moves it to CLOSING; its 'close' event comes later
StartsClosing(c) ==
  /\ ~exited
  /\ readyState[c] = OPEN
  /\ readyState' = [readyState EXCEPT ![c] = CLOSING]
  /\ Internal
  /\ UNCHANGED <<clock, timerNext, cycles, serviceStatuses, clients, inbox, callVars>>

\* the sockets the HTTP server still holds: accepted and not yet closed
OpenSockets(state) == {c \in Connections : state[c] \in {OPEN, CLOSING}}

\* server.close(() => { process.exit(0) }): the callback runs once the
\* server has stopped listening and the last of its sockets has closed
ServerClosed(isListening, state) == ~isListening /\ OpenSockets(state) = {}

\* the socket of a connection closes: ws.on('close', () => clients.delete(ws));
\* when it was the last socket of a server that was told to close, the
\* callback of server.close runs
Close_keeps(c) ==
  /\ ~exited
  /\ readyState[c] \in {OPEN, CLOSING}
  /\ readyState' = [readyState EXCEPT ![c] = CLOSED]
  /\ exited' = ServerClosed(listening, readyState')
  /\ response' = NoResponse
  /\ UNCHANGED <<clock, timerNext, cycles, serviceStatuses, clients, inbox, callVars, listening>>
Close(c) ==
  /\ ~exited
  /\ readyState[c] \in {OPEN, CLOSING}
  /\ readyState' = [readyState EXCEPT ![c] = CLOSED]
  /\ clients' = clients \ {c}
  /\ exited' = ServerClosed(listening, readyState')
  /\ response' = NoResponse
  /\ UNCHANGED <<clock, timerNext, cycles, serviceStatuses, inbox, callVars, listening>>

\* the probing mechanism itself fails, so that the promise of
\* checkServiceHealth rejects: Promise.allSettled reports the probe as
\* { status: 'rejected' }
Rejected == [state |-> "rejected", reason |-> "prober fault"]

ProbeFaults_unhandled(start, index) ==
  /\ ~exited
  /\ start \in DOMAIN cycles
  /\ cycles[start][index].state = "pending"
  /\ exited' = TRUE
  /\ response' = NoResponse
  /\ UNCHANGED <<sysVars, callVars, listening>>
ProbeFaults(start, index) ==
  /\ ~exited
  /\ start \in DOMAIN cycles
  /\ cycles[start][index].state = "pending"
  /\ Settle(start, index, Rejected)
  /\ Internal
  /\ UNCHANGED <<clock, timerNext, clients, readyState, callVars>>

\* statuses.filter(s => s.status === 'healthy').length
HealthyCount_total(statuses) == Len(statuses)
HealthyCount(statuses) ==
  Cardinality({i \in 1..Len(statuses) : statuses[i].status = "healthy"})

\* res.json(...) of GET /api/status
StatusResponse(store) ==
  LET statuses == MapValues(store)
      healthyCount == HealthyCount(statuses)
  IN  [sent |-> TRUE,
       code |-> 200,
       body |-> [success  |-> TRUE,
                 summary  |-> [totalServices     |-> Len(statuses),
                               healthyServices   |-> healthyCount,
                               unhealthyServices |-> Len(statuses) - healthyCount,
                               overallHealth     |-> IF healthyCount = Len(statuses)
                                                       THEN "healthy"
                                                       ELSE "degraded"],
                 services |-> statuses]]

\* the response of GET /api/service/:name
ServiceResponse_any_entry(store, name) ==
  IF store = << >>
    THEN [sent |-> TRUE,
          code |-> 404,
          body |-> [success |-> FALSE, message |-> "Service not found"]]
    ELSE [sent |-> TRUE,
          code |-> 200,
          body |-> [success |-> TRUE,
                    service |-> IF MapHas(store, name) THEN MapGet(store, name) ELSE store[1][2]]]
ServiceResponse(store, name) ==
  IF ~MapHas(store, name)
    THEN [sent |-> TRUE,
          code |-> 404,
          body |-> [success |-> FALSE, message |-> "Service not found"]]
    ELSE [sent |-> TRUE,
          code |-> 200,
          body |-> [success |-> TRUE, service |-> MapGet(store, name)]]

\* the names the model asks for: those of the monitored services and one
\* that is not registered
QueryNames == {services[i].name : i \in 1..Len(services)} \cup {"cache"}

\* app.get('/api/status', ...)
GetStatus ==
  /\ ~exited
  /\ listening
  /\ response' = StatusResponse(serviceStatuses)
  /\ UNCHANGED <<sysVars, callVars, procVars>>

\* app.get('/api/service/:name', ...)
GetService(name) ==
  /\ ~exited
  /\ listening
  /\ response' = ServiceResponse(serviceStatuses, name)
  /\ UNCHANGED <<sysVars, callVars, procVars>>

\* process.on('SIGTERM' / 'SIGINT', () => server.close(() => process.exit(0))):
\* the server stops listening; the interval timer is left running; the
\* callback runs at once when the server holds no socket
Signal ==
  /\ ~exited
  /\ listening' = FALSE
  /\ exited' = ServerClosed(FALSE, readyState)
  /\ response' = NoResponse
  /\ UNCHANGED <<sysVars, callVars>>

Next ==
  \/ TimerFires
  \/ \E s \in DOMAIN cycles, i \in 1..Len(services), o \in EarlyOutcomes :
       ProbeResponds(s, i, o)
  \/ \E s \in DOMAIN cycles, i \in 1..Len(services) : ProbeTimesOut(s, i)
  \/ Tick
  \/ \E c \in Connections : Connect(c)
  \/ \E c \in Connections : StartsClosing(c)
  \/ \E c \in Connections : Close(c)

Spec == Init /\ [][Next]_vars

\* the event loop runs a due timer and a due timeout, and time passes
FairSpec ==
  /\ Spec
  /\ WF_vars(Tick)
  /\ WF_vars(TimerFires)
  /\ WF_vars(\E s \in StartTimes, i \in 1..Len(services) : ProbeTimesOut(s, i))

\* the service with a probing mechanism that can fail
NextFault ==
  \/ Next
  \/ \E s \in DOMAIN cycles, i \in 1..Len(services) : ProbeFaults(s, i)

SpecFault == Init /\ [][NextFault]_vars

\* the service with the requests of the HTTP API
NextApi ==
  \/ Next
  \/ GetStatus
  \/ \E n \in QueryNames : GetService(n)

SpecApi == Init /\ [][NextApi]_vars

\* the service with every kind of fault, the requests of the HTTP API and
\* termination signals
NextLife ==
  \/ NextFault
  \/ GetStatus
  \/ \E n \in QueryNames : GetService(n)
  \/ Signal

SpecLife == Init /\ [][NextLife]_vars

(***************************************************************************)
(* checkServiceHealth on its own: one call, over every kind of outcome.    *)
(***************************************************************************)
AllStatusCodes == {200, 201, 204, 301, 404, 429, 499, 500, 502, 503}

AllOutcomes ==
  {Response(c) : c \in AllStatusCodes} \cup {NetworkError, TimedOut, InvalidUrl}

\* how long after the call its request ends
Elapsed(outcome) ==
  IF outcome.kind = "timeout" THEN {ProbeTimeout}
  ELSE IF outcome.kind = "response" THEN {0, 120}
  ELSE {0}

CallInit ==
  /\ SysInit
  /\ \E i \in 1..Len(Registry), o \in AllOutcomes, t \in StartTimes :
       \E e \in Elapsed(o) :
         call = [made |-> TRUE, service |-> Registry[i], startTime |-> t,
                 now |-> t + e, outcome |-> o]
  /\ returned = Pending

\* the call's request ends and the promise it returned settles
CallSettles ==
  /\ returned = Pending
  /\ returned' = checkServiceHealth(call.service, call.startTime, call.now, call.outcome)
  /\ Internal
  /\ UNCHANGED <<sysVars, call>>

SpecProbe == CallInit /\ [][CallSettles]_vars

(***************************************************************************)
(* The handlers of the HTTP API on their own: one request, over the stores *)
(* a cycle can leave.                                                      *)
(***************************************************************************)
\* when the cycle of QueryInit completed
QueryTime == 120

\* what probe `index` of the startup cycle can have settled as
ProbeResults(index) ==
  {checkServiceHealth(services[index], 0, QueryTime, o) :
     o \in EarlyOutcomes \cup {NetworkError}} \cup {Rejected}

\* the stores the startup cycle can leave
CycleStores ==
  {ResultLoop(<< >>, results, 1, QueryTime) :
     results \in {r \in [1..Len(services) -> UNION {ProbeResults(i) : i \in 1..Len(services)}] :
                    \A i \in 1..Len(services) : r[i] \in ProbeResults(i)}}

\* the startup cycle is outstanding, or has just completed; some connections
\* were accepted since and hold the snapshot
QueryInit ==
  /\ \/ /\ clock = 0
        /\ cycles = (0 :> StartProbes)
        /\ serviceStatuses = << >>
     \/ /\ clock = QueryTime
        /\ cycles = << >>
        /\ serviceStatuses \in CycleStores
  /\ timerNext = Interval
  /\ \E n \in 0..MaxConnections :
       /\ clients = 1..n
       /\ readyState = [c \in Connections |-> IF c <= n THEN OPEN ELSE CONNECTING]
       /\ inbox = [c \in Connections |->
                     IF c <= n THEN <<SnapshotMessage(serviceStatuses)>> ELSE << >>]
  /\ listening = TRUE
  /\ exited = FALSE
  /\ response = NoResponse
  /\ call = NoCall
  /\ returned = Pending

NextQuery ==
  \/ GetStatus
  \/ \E n \in QueryNames : GetService(n)

SpecQuery == QueryInit /\ [][NextQuery]_vars

(***************************************************************************)
(* Properties.                                                             *)
(***************************************************************************)
\* this step completes a cycle: monitorServices runs its result loop and
\* broadcastStatus
CycleCompletes == \E s \in DOMAIN cycles : s \notin DOMAIN cycles'

\* this step is the 'connection' event of c
Connects(c) == readyState[c] = CONNECTING /\ readyState'[c] # CONNECTING

Accepted == {c \in Connections : readyState[c] # CONNECTING}

HasTimestamp(m) == "timestamp" \in DOMAIN m

\* the connections of the live set whose send failed in the last broadcast:
\* they were in the set, not OPEN, and so were never sent the contents the
\* store has now
skipped ==
  {c \in clients :
     /\ serviceStatuses # << >>
     /\ \A k \in 1..Len(inbox[c]) : inbox[c][k].data # MapValues(serviceStatuses)}

Last(q) == q[Len(q)]

\* how many entries the store holds under a key
EntriesFor(store, key) == Cardinality({i \in 1..Len(store) : store[i][1] = key})

\* the list holds one status per registered service, in registration order
OnePerService(data) ==
  /\ Len(data) = Len(services)
  /\ \A i \in 1..Len(services) : data[i].name = services[i].name

\* C1: the status store is empty as long as the startup cycle has not
\* completed, and from then on holds exactly one entry under the name of
\* every registered service: never entries for some services and none for
\* others.
C1_StoreEmptyOrComplete ==
  IF 0 \in DOMAIN cycles
    THEN serviceStatuses = << >>
    ELSE \A i \in 1..Len(services) : EntriesFor(serviceStatuses, services[i].name) = 1

\* C1 witness: the second cycle has completed and has overwritten the
\* entries of the first.
C1_Witness ==
  /\ clock >= Interval
  /\ cycles = << >>
  /\ \A i \in 1..Len(services) :
       /\ EntriesFor(serviceStatuses, services[i].name) = 1
       /\ MapGet(serviceStatuses, services[i].name).lastCheck >= Interval

\* the message is the broadcast of the cycle this step completes: it
\* holds, for every registered service, the entry the store now has, which
\* is the result of this cycle's probe
IsBroadcastOfCycle(m) ==
  /\ m.type = "status"
  /\ HasTimestamp(m)
  /\ m.timestamp = clock
  /\ OnePerService(m.data)
  /\ \A i \in 1..Len(services) :
       /\ EntriesFor(serviceStatuses', services[i].name) = 1
       /\ m.data[i] = MapGet(serviceStatuses', services[i].name)
       /\ \E s \in DOMAIN cycles \ DOMAIN cycles' :
            IF cycles[s][i].state = "fulfilled"
              THEN m.data[i] = cycles[s][i].value
              ELSE m.data[i].lastCheck = clock

\* the step sends c exactly one message, the broadcast of the cycle it completes
GetsBroadcast(c) ==
  /\ Len(inbox'[c]) = Len(inbox[c]) + 1
  /\ SubSeq(inbox'[c], 1, Len(inbox[c])) = inbox[c]
  /\ IsBroadcastOfCycle(Last(inbox'[c]))

\* C2, as claimed: every completed cycle sends exactly one broadcast
\* message, holding the latest status of every registered service, to every
\* connection that is in the live set at the moment of the broadcast.
C2_EveryLiveConnectionGetsBroadcast ==
  [][CycleCompletes => \A c \in clients : GetsBroadcast(c)]_vars

\* C2, amended: every completed cycle sends exactly one broadcast message,
\* holding the latest status of every registered service, to every
\* connection of the live set that is OPEN at the moment of the broadcast,
\* and nothing to any other connection.
C2_EveryOpenConnectionGetsBroadcast ==
  [][CycleCompletes =>
       \A c \in Connections :
         IF c \in clients /\ readyState[c] = OPEN
           THEN GetsBroadcast(c)
           ELSE inbox'[c] = inbox[c]]_vars

\* C2 witness: a connection that was sent the snapshot and the broadcasts
\* of two cycles, beside a connection of the live set that was not OPEN and
\* was sent less.
C2_Witness ==
  \E c, d \in clients :
    /\ readyState[c] = OPEN
    /\ Len(inbox[c]) = 3
    /\ readyState[d] = CLOSING
    /\ Len(inbox[d]) < 3

\* C3: a connection of the live set whose send would fail (it is not OPEN)
\* does not keep a broadcast from the others: the cycle's step completes,
\* the store is written, and every OPEN connection of the live set gets the
\* cycle's broadcast as its newest message.
C3_SendFailuresIsolated ==
  [][(CycleCompletes /\ \E d \in clients : readyState[d] # OPEN) =>
       /\ OnePerService(MapValues(serviceStatuses'))
       /\ \A c \in clients :
            readyState[c] = OPEN =>
              /\ inbox'[c] # inbox[c]
              /\ IsBroadcastOfCycle(Last(inbox'[c]))]_vars

\* C3 witness: a broadcast skipped d, and c holds that broadcast while d
\* does not.
C3_Witness ==
  \E d \in skipped, c \in clients \ skipped :
    /\ inbox[c] # << >>
    /\ HasTimestamp(Last(inbox[c]))
    /\ \A k \in 1..Len(inbox[d]) :
         HasTimestamp(inbox[d][k]) => inbox[d][k].timestamp < Last(inbox[c]).timestamp

\* C4: a connection whose send failed during a broadcast (it was in the live
\* set and not OPEN) is no longer in the live set when the next broadcast
\* runs.
C4_FailedConnectionRemovedByNextBroadcast ==
  [][CycleCompletes => skipped = {}]_vars

\* C5: the 'connection' event of c adds c to the live set and sends c
\* exactly one message, the snapshot of the store as it is at that moment;
\* the step writes no store entry, completes no cycle and sends nothing to
\* any other connection; every later message to c is a broadcast.
C5_SnapshotOnConnect ==
  [][\A c \in Connections :
       /\ Connects(c) =>
            /\ c \in clients'
            /\ inbox[c] = << >>
            /\ Len(inbox'[c]) = 1
            /\ inbox'[c][1].type = "status"
            /\ ~HasTimestamp(inbox'[c][1])
            /\ Len(inbox'[c][1].data) = Len(serviceStatuses)
            /\ \A i \in 1..Len(serviceStatuses) :
                 inbox'[c][1].data[i] = serviceStatuses[i][2]
            /\ serviceStatuses' = serviceStatuses
            /\ cycles' = cycles
            /\ \A d \in Connections \ {c} : inbox'[d] = inbox[d]
       /\ (~Connects(c) /\ inbox'[c] # inbox[c]) =>
            /\ c \in Accepted
            /\ HasTimestamp(Last(inbox'[c]))]_vars

\* C5 witness: a connection accepted after a cycle completed was sent a
\* snapshot with the entries of the store.
C5_Witness ==
  \E c \in Accepted :
    /\ ~HasTimestamp(inbox[c][1])
    /\ OnePerService(inbox[c][1].data)

\* C6, as claimed: the snapshot sent on connect holds a status for the
\* registered services, never an empty list, whenever the connection is
\* accepted.
C6_SnapshotNeverBlank ==
  \A c \in Accepted : OnePerService(inbox[c][1].data)

\* C6, amended: the snapshot sent on connect holds one status per
\* registered service when the startup cycle has completed, and is the empty
\* list when the connection is accepted while the startup cycle's probes
\* are still outstanding.
C6_SnapshotBlankOnlyBeforeFirstCycle ==
  [][\A c \in Connections :
       Connects(c) =>
         IF 0 \in DOMAIN cycles
           THEN inbox'[c][1].data = << >>
           ELSE OnePerService(inbox'[c][1].data)]_vars

\* C6 witness: one connection was sent a blank snapshot, another a full one.
C6_Witness ==
  \E c, d \in Accepted :
    /\ inbox[c][1].data = << >>
    /\ OnePerService(inbox[d][1].data)

\* C7: at most one polling cycle is active at any time: when the timer
\* starts a cycle, every probe of the cycle before has settled.
C7_OneActiveCycle == Cardinality(DOMAIN cycles) <= 1

\* C7 witness: the interval timer has started a cycle.
C7_Witness ==
  /\ clock >= Interval
  /\ Interval \in DOMAIN cycles
  /\ serviceStatuses # << >>

\* what a probe ended by the timeout yields
TimedOutStatus(v) == v.status = "unhealthy" /\ v.uptime = 0 /\ "error" \in DOMAIN v

\* C8: a probe is never outstanding beyond the timeout, a probe ended by
\* the timeout yields unhealthy with uptime 0, and every cycle that starts
\* completes: its entries are written and its broadcast is issued.
C8_TimeoutEndsProbeAndCycle ==
  /\ [](/\ \A s \in DOMAIN cycles :
            /\ clock - s <= ProbeTimeout
            /\ \A i \in 1..Len(services) :
                 (/\ cycles[s][i].state # "pending"
                  /\ cycles[s][i].value.responseTime >= ProbeTimeout) =>
                   TimedOutStatus(cycles[s][i].value)
        /\ \A k \in 1..Len(serviceStatuses) :
             serviceStatuses[k][2].responseTime >= ProbeTimeout =>
               TimedOutStatus(serviceStatuses[k][2]))
  /\ \A s \in StartTimes :
       (s \in DOMAIN cycles) ~>
         (/\ s \notin DOMAIN cycles
          /\ \A i \in 1..Len(services) :
               /\ MapHas(serviceStatuses, services[i].name)
               /\ MapGet(serviceStatuses, services[i].name).lastCheck >= s)

\* C8 witness: a cycle completed with a probe that was ended by the timeout.
C8_Witness ==
  /\ cycles = << >>
  /\ \E i \in 1..Len(serviceStatuses) :
       /\ serviceStatuses[i][2].responseTime = ProbeTimeout
       /\ serviceStatuses[i][2].status = "unhealthy"
       /\ serviceStatuses[i][2].uptime = 0

\* C9: whatever its request comes to, checkServiceHealth returns a promise
\* that fulfils with a ServiceStatus of the service it was called with;
\* it never rejects, and a failed request is recorded in the status.
C9_ProberIsTotal ==
  returned # Pending =>
    /\ returned.state = "fulfilled"
    /\ returned.value.name = call.service.name
    /\ returned.value.status \in {"healthy", "unhealthy"}
    /\ returned.value.lastCheck = call.now
    /\ returned.value.responseTime = call.now - call.startTime
    /\ (call.outcome.kind # "response") =>
         (returned.value.status = "unhealthy" /\ "error" \in DOMAIN returned.value)

\* C9 witness: a call whose request failed on a malformed URL has returned.
C9_Witness ==
  /\ call.made
  /\ call.outcome = InvalidUrl
  /\ returned # Pending
  /\ returned.state = "fulfilled"

\* C10: a response with status 200 yields healthy with uptime 100, a
\* response with another status below 500 healthy with uptime 90, and a
\* response with status 500 or above, a network error, a malformed URL or
\* a timeout unhealthy with uptime 0 and a non-empty error text.
C10_Classification ==
  (returned # Pending /\ returned.state = "fulfilled") =>
    LET o == call.outcome
        v == returned.value
    IN  IF o.kind = "response" /\ o.status = 200
          THEN v.status = "healthy" /\ v.uptime = 100 /\ "error" \notin DOMAIN v
        ELSE IF o.kind = "response" /\ o.status < 500
          THEN v.status = "healthy" /\ v.uptime = 90 /\ "error" \notin DOMAIN v
        ELSE /\ v.status = "unhealthy"
             /\ v.uptime = 0
             /\ "error" \in DOMAIN v
             /\ v.error # ""

\* C10 witness: a call answered with status 499 has returned healthy with
\* uptime 90.
C10_Witness ==
  /\ call.made
  /\ call.outcome \in {Response(499)}
  /\ returned # Pending
  /\ returned.value.uptime = 90

\* the entry the scheduler writes at `now` for a probe whose promise rejected
Synthesized(name, now) ==
  [name         |-> name,
   status       |-> "unknown",
   responseTime |-> 0,
   lastCheck    |-> now,
   uptime       |-> 0,
   error        |-> "Health check failed"]

\* C11: when a cycle completes and the promise of one of its probes has
\* rejected, the store gets for that service the synthesized entry (status
\* unknown, uptime 0, responseTime 0, error 'Health check failed'), and for
\* every service whose probe fulfilled the result of that probe; the store
\* then holds one entry per registered service, and the broadcast is issued
\* to the OPEN connections of the live set.
C11_RejectedProbeYieldsUnknown ==
  [][\A s \in DOMAIN cycles :
       (s \notin DOMAIN cycles') =>
         /\ OnePerService(MapValues(serviceStatuses'))
         /\ \A i \in 1..Len(services) :
              LET entry == MapGet(serviceStatuses', services[i].name)
              IN  /\ (cycles[s][i].state = "rejected" \/ ProbeFaults(s, i)) =>
                       entry = Synthesized(services[i].name, clock)
                  /\ cycles[s][i].state = "fulfilled" => entry = cycles[s][i].value
                  /\ (cycles[s][i].state = "pending" /\ ~ProbeFaults(s, i)) =>
                       /\ entry.name = services[i].name
                       /\ entry.status \in {"healthy", "unhealthy"}
                       /\ entry.lastCheck = clock
         /\ \A c \in clients :
              readyState[c] = OPEN =>
                /\ Len(inbox'[c]) = Len(inbox[c]) + 1
                /\ Last(inbox'[c]) = BroadcastMessage(serviceStatuses', clock)]_vars

\* C11 witness: a cycle has completed in which the probe of one service
\* rejected and the probe of another was answered; the store holds the
\* synthesized entry beside the probe's result, and an OPEN connection was
\* sent both.
C11_Witness ==
  /\ cycles = << >>
  /\ OnePerService(MapValues(serviceStatuses))
  /\ \E i, j \in 1..Len(services) :
       /\ serviceStatuses[i][2] = Synthesized(services[i].name, serviceStatuses[i][2].lastCheck)
       /\ serviceStatuses[j][2].status = "healthy"
  /\ \E c \in clients :
       /\ readyState[c] = OPEN
       /\ HasTimestamp(Last(inbox[c]))
       /\ Last(inbox[c]).data = MapValues(serviceStatuses)

\* this step starts a polling cycle
CycleStarts == DOMAIN cycles' \ DOMAIN cycles # {}

C13_ShutdownStopsConnectionsAndCycles ==
  [][~listening =>
       /\ ~listening'
       /\ \A c \in Connections : ~Connects(c)
       /\ ~CycleStarts]_vars

\* the cycle that wrote an entry: the one whose probes were outstanding at
\* the entry's lastCheck
CycleOf(v) ==
  CHOOSE s \in StartTimes : s <= v.lastCheck /\ v.lastCheck <= s + ProbeTimeout

\* the statuses of the list were all written by one cycle
SameCycle(data) ==
  \A i, j \in 1..Len(data) : CycleOf(data[i]) = CycleOf(data[j])

\* C14: the store changes only in the step that completes a cycle, and that
\* step writes the entry of every registered service; so the store, every
\* snapshot and broadcast sent, and every response of /api/status hold
\* entries of one cycle only, and a request handler returns the store as it
\* is before and after its step.
C14_StoreWrittenAsBatch ==
  /\ [](/\ SameCycle(MapValues(serviceStatuses))
        /\ \A c \in Connections :
             \A k \in 1..Len(inbox[c]) : SameCycle(inbox[c][k].data)
        /\ (response.sent /\ response.code = 200 /\ "services" \in DOMAIN response.body) =>
             SameCycle(response.body.services))
  /\ [][serviceStatuses' # serviceStatuses =>
          \E s \in DOMAIN cycles :
            /\ s \notin DOMAIN cycles'
            /\ OnePerService(MapValues(serviceStatuses'))
            /\ \A i \in 1..Len(serviceStatuses') : CycleOf(serviceStatuses'[i][2]) = s]_vars
  /\ [][response'.sent =>
          /\ serviceStatuses' = serviceStatuses
          /\ \/ response' = StatusResponse(serviceStatuses)
             \/ \E n \in QueryNames : response' = ServiceResponse(serviceStatuses, n)]_vars

\* C14 witness: /api/status is answered while the second cycle has written
\* nothing yet although one of its probes has settled: the response holds
\* the entries of the startup cycle only.
C14_Witness ==
  /\ Interval \in DOMAIN cycles
  /\ \E i \in 1..Len(services) : cycles[Interval][i].state = "fulfilled"
  /\ response.sent
  /\ response.code = 200
  /\ "services" \in DOMAIN response.body
  /\ OnePerService(response.body.services)
  /\ \A i \in 1..Len(services) : CycleOf(response.body.services[i]) = 0

\* the status has an error only when it is not healthy, and uptime 0 when
\* it is unhealthy or unknown
ErrorOnlyWhenNotHealthy(v) ==
  /\ v.status \in {"healthy", "unhealthy", "unknown"}
  /\ v.status = "healthy" => "error" \notin DOMAIN v
  /\ v.status # "healthy" => v.uptime = 0

\* C15: every status in the store, and every status of every snapshot and
\* broadcast sent, has no error field when it is healthy and uptime 0 when
\* it is unhealthy or unknown.
C15_ErrorOnlyWhenNotHealthy ==
  /\ \A i \in 1..Len(serviceStatuses) : ErrorOnlyWhenNotHealthy(serviceStatuses[i][2])
  /\ \A c \in Connections :
       \A k \in 1..Len(inbox[c]) :
         \A i \in 1..Len(inbox[c][k].data) : ErrorOnlyWhenNotHealthy(inbox[c][k].data[i])

\* C15 witness: a message was sent that holds a healthy status without an
\* error beside a status that is not healthy, and the store holds an
\* unknown status.
C15_Witness ==
  /\ \E i \in 1..Len(serviceStatuses) :
       /\ serviceStatuses[i][2].status = "unknown"
       /\ "error" \in DOMAIN serviceStatuses[i][2]
  /\ \E c \in Connections :
       \E k \in 1..Len(inbox[c]) :
         \E i, j \in 1..Len(inbox[c][k].data) :
           /\ inbox[c][k].data[i].status = "healthy"
           /\ "error" \notin DOMAIN inbox[c][k].data[i]
           /\ inbox[c][k].data[j].status = "unhealthy"
           /\ "error" \in DOMAIN inbox[c][k].data[j]

\* this step is the 'close' event of c
Closes(c) == readyState[c] # CLOSED /\ readyState'[c] = CLOSED

\* C16: the 'close' event of a connection removes it, and nothing else,
\* from the live set and sends nothing; a connection whose close event has
\* been handled is never in the live set again, and no message is sent to
\* it, whatever connects, closes and broadcasts follow.
C16_CloseRemovesConnection ==
  /\ [](\A c \in Connections : readyState[c] = CLOSED => c \notin clients)
  /\ [][\A c \in Connections :
          /\ Closes(c) =>
               /\ c \in clients
               /\ clients' = clients \ {c}
               /\ inbox' = inbox
               /\ serviceStatuses' = serviceStatuses
          /\ readyState[c] = CLOSED =>
               /\ readyState'[c] = CLOSED
               /\ inbox'[c] = inbox[c]]_vars

\* C16 witness: a connection was closed after the broadcast of the startup
\* cycle; the broadcast of the next cycle went to another connection of the
\* live set and not to it.
C16_Witness ==
  \E c, d \in Connections :
    /\ readyState[c] = CLOSED
    /\ c \notin clients
    /\ HasTimestamp(Last(inbox[c]))
    /\ Last(inbox[c]).timestamp < Interval
    /\ d \in clients
    /\ HasTimestamp(Last(inbox[d]))
    /\ Last(inbox[d]).timestamp >= Interval

\* C17: GET /api/service/:name answers 404 with success false exactly when
\* the store has no entry under the name, and otherwise 200 with the entry
\* stored under the name; it changes neither the store nor the live set.
C17_ServiceQuery ==
  [][\A n \in QueryNames :
       GetService(n) =>
         /\ response'.sent
         /\ IF n \in MapKeys(serviceStatuses)
              THEN /\ response'.code = 200
                   /\ response'.body.success = TRUE
                   /\ \E i \in 1..Len(serviceStatuses) :
                        /\ serviceStatuses[i][1] = n
                        /\ response'.body.service = serviceStatuses[i][2]
                        /\ response'.body.service.name = n
              ELSE /\ response'.code = 404
                   /\ response'.body.success = FALSE
         /\ serviceStatuses' = serviceStatuses
         /\ clients' = clients
         /\ inbox' = inbox]_vars

\* C17 witness: with a full store and a connection in the live set, a query
\* for an unregistered name was answered 404.
C17_Witness ==
  /\ response.sent
  /\ response.code = 404
  /\ response.body.success = FALSE
  /\ OnePerService(MapValues(serviceStatuses))
  /\ clients # {}

\* how many entries of the store have the status
EntriesWithStatus(store, status) ==
  Cardinality({i \in 1..Len(store) : store[i][2].status = status})

\* the response is one of GET /api/status
IsSummary(r) == r.sent /\ r.code = 200 /\ "summary" \in DOMAIN r.body

\* C18, as claimed: in the summary of /api/status, totalServices is the
\* number of store entries, healthyServices the number of healthy entries,
\* unhealthyServices the number of entries with status unhealthy, the two
\* add up to totalServices, and overallHealth is 'healthy' exactly when
\* every registered service has a healthy entry, 'degraded' otherwise.
C18_SummaryCountsUnhealthyEntries ==
  IsSummary(response) =>
    LET summary == response.body.summary
    IN  /\ summary.totalServices = Len(serviceStatuses)
        /\ summary.healthyServices = EntriesWithStatus(serviceStatuses, "healthy")
        /\ summary.unhealthyServices = EntriesWithStatus(serviceStatuses, "unhealthy")
        /\ summary.healthyServices + summary.unhealthyServices = summary.totalServices
        /\ summary.overallHealth \in {"healthy", "degraded"}
        /\ summary.overallHealth = "healthy" <=>
             \A i \in 1..Len(services) :
               /\ MapHas(serviceStatuses, services[i].name)
               /\ MapGet(serviceStatuses, services[i].name).status = "healthy"

\* C18, amended: totalServices is the number of store entries,
\* healthyServices the number of healthy entries, unhealthyServices the
\* number of entries that are not healthy (unhealthy or unknown), the two
\* add up to totalServices, and overallHealth is 'healthy' exactly when no
\* entry of the store is other than healthy, which includes the empty store
\* before the startup cycle completes; 'degraded' otherwise.  The list of
\* services is the store's, in order.
C18_SummaryCountsNotHealthyEntries ==
  IsSummary(response) =>
    LET summary == response.body.summary
    IN  /\ summary.totalServices = Len(serviceStatuses)
        /\ summary.healthyServices = EntriesWithStatus(serviceStatuses, "healthy")
        /\ summary.unhealthyServices =
             EntriesWithStatus(serviceStatuses, "unhealthy")
               + EntriesWithStatus(serviceStatuses, "unknown")
        /\ summary.healthyServices + summary.unhealthyServices = summary.totalServices
        /\ summary.overallHealth \in {"healthy", "degraded"}
        /\ summary.overallHealth = "healthy" <=>
             \A i \in 1..Len(serviceStatuses) : serviceStatuses[i][2].status = "healthy"
        /\ serviceStatuses = << >> => summary.overallHealth = "healthy"
        /\ Len(response.body.services) = Len(serviceStatuses)
        /\ \A i \in 1..Len(serviceStatuses) :
             response.body.services[i] = serviceStatuses[i][2]

\* C18 witness: a summary of a full store with a healthy and an unknown
\* entry counts the unknown entry among the unhealthy services.
C18_Witness ==
  /\ IsSummary(response)
  /\ OnePerService(MapValues(serviceStatuses))
  /\ EntriesWithStatus(serviceStatuses, "unknown") > 0
  /\ EntriesWithStatus(serviceStatuses, "healthy") > 0
  /\ response.body.summary.unhealthyServices > EntriesWithStatus(serviceStatuses, "unhealthy")
  /\ response.body.summary.overallHealth = "degraded"

\* the names of the registered services
ServiceNames == {services[i].name : i \in 1..Len(services)}

\* C19: the keys of the store are names of registered services, every
\* entry carries the name it is stored under, and no step removes a key:
\* an entry is only ever overwritten under its own key.
C19_StoreWellFormed ==
  /\ [](/\ MapKeys(serviceStatuses) \subseteq ServiceNames
        /\ \A i \in 1..Len(serviceStatuses) :
             serviceStatuses[i][2].name = serviceStatuses[i][1])
  /\ [][/\ MapKeys(serviceStatuses) \subseteq MapKeys(serviceStatuses')
        /\ Len(serviceStatuses) <= Len(serviceStatuses')]_vars

\* C19 witness: the second cycle has overwritten the entries of the first,
\* one of them with the entry synthesized for a rejected probe.
C19_Witness ==
  /\ Len(serviceStatuses) = Len(services)
  /\ \A i \in 1..Len(serviceStatuses) :
       /\ serviceStatuses[i][2].lastCheck >= Interval
       /\ serviceStatuses[i][2].name = serviceStatuses[i][1]
  /\ \E i \in 1..Len(serviceStatuses) : serviceStatuses[i][2].status = "unknown"

\* the statuses of message m2 are not of an older cycle than those of m1
NotOlder(m1, m2) ==
  \/ m1.data = << >>
  \/ /\ m2.data # << >>
     /\ CycleOf(m1.data[1]) <= CycleOf(m2.data[1])

\* C20: the first message sent to a connection is its on-connect snapshot,
\* every later one is a broadcast, and the cycles of the statuses it is
\* sent never go back; a connection of the live set that is not OPEN when a
\* broadcast runs is sent nothing by it and stays in the live set, which it
\* leaves only by its close event.
C20_MessageOrderPerConnection ==
  /\ [](\A c \in Connections :
          /\ c \in Accepted => /\ inbox[c] # << >>
                               /\ ~HasTimestamp(inbox[c][1])
          /\ c \notin Accepted => inbox[c] = << >>
          /\ \A k \in 1..Len(inbox[c]) :
               k > 1 => /\ HasTimestamp(inbox[c][k])
                        /\ SameCycle(inbox[c][k].data)
                        /\ NotOlder(inbox[c][k - 1], inbox[c][k]))
  /\ [][\A c \in Connections :
          /\ (CycleCompletes /\ c \in clients /\ readyState[c] # OPEN) =>
               /\ inbox'[c] = inbox[c]
               /\ c \in clients'
          /\ (c \in clients /\ c \notin clients') => Closes(c)
          /\ SubSeq(inbox'[c], 1, Len(inbox[c])) = inbox[c]]_vars

\* C20 witness: a connection accepted after the startup cycle holds the
\* snapshot of that cycle followed by the broadcast of the next, while a
\* connection that was not OPEN at that broadcast is still in the live set
\* and holds the snapshot only.
C20_Witness ==
  \E c, d \in clients :
    /\ Len(inbox[c]) = 2
    /\ OnePerService(inbox[c][1].data)
    /\ CycleOf(inbox[c][1].data[1]) = 0
    /\ CycleOf(inbox[c][2].data[1]) = Interval
    /\ readyState[d] # OPEN
    /\ Len(inbox[d]) = 1

====
